---- MODULE Spec2Model ----
(***************************************************************************)
(* Tuple dashboard: the Data Sources, Explorer and Insights pages as       *)
(* event-driven React components talking to the backend over fetch.        *)
(*                                                                         *)
(* Every async handler is split at its awaits: the synchronous part up to  *)
(* the fetch is one action (the click), the backend answering is another,  *)
(* and the continuation after the await is a third.  Component state is a  *)
(* record per page holding the useState cells under their source names.    *)
(***************************************************************************)
EXTENDS Integers, Sequences, FiniteSets, Bags, TLC

VARIABLES
    mounted,    \* pages whose mount effect has run (one page per browser tab)
    server,     \* backend: [sources, nextId], the single source of truth
    net,        \* fetches in flight, each with the handler awaiting it
    dsPage,     \* DataSourcesPage useState cells
    explorer,   \* ExplorerPage useState cells
    insights,   \* InsightsPage useState cells
    chat,       \* ChatPage useState cells and its pending reply timers
    store,      \* zustand stores (lib/store.ts)
    toast,      \* notification raised by the latest step (sonner)
    returned    \* handler that returned at its guard in the latest step, or ""

vars == <<mounted, server, net, dsPage, explorer, insights, chat, store,
          toast, returned>>

----------------------------------------------------------------------------
(* Bounds *)

\* data sources the backend creates during a run
MaxCreates == 1
\* fetches in flight at once
MaxInFlight == 2
\* largest wall-clock difference Date.now() - startTime
MaxElapsed == 1

----------------------------------------------------------------------------
(* Values *)

Pages == {"datasources", "explorer", "insights"}

IdPool == <<"d1", "d2", "d3">>
IdOf(n) == IF n <= Len(IdPool) THEN IdPool[n] ELSE "d_over"

\* executionTime / results start as null
NoTime == [isNull |-> TRUE, ms |-> 0]
Ms(n) == [isNull |-> FALSE, ms |-> n]
NullResults == [isNull |-> TRUE, rows |-> <<>>]
Rows(rs) == [isNull |-> FALSE, rows |-> rs]

\* subject: the data source a message names, if it names one
NoToast == [level |-> "none", msg |-> "", subject |-> ""]
ErrorToast(m) == [level |-> "error", msg |-> m, subject |-> ""]
SuccessToast(m) == [level |-> "success", msg |-> m, subject |-> ""]

\* sequence helpers
Range(s) == {s[i] : i \in 1..Len(s)}
RECURSIVE SeqFilterId(_, _)
SeqFilterId(s, id) ==
    IF s = <<>> THEN <<>>
    ELSE IF Head(s).id = id THEN SeqFilterId(Tail(s), id)
         ELSE <<Head(s)>> \o SeqFilterId(Tail(s), id)

----------------------------------------------------------------------------
(* Backend (FastAPI service behind /api/v1) and the fetches in flight *)

\* what the backend stores for the n-th source it creates: status may be
\* omitted (""), schema_data may be missing until the first sync
ConnectedShape == [status |-> "connected", hasSchema |-> TRUE, tables |-> <<"users">>]
SourceShapes ==
    << ConnectedShape,
       [status |-> "",      hasSchema |-> FALSE, tables |-> <<>>],
       [status |-> "error", hasSchema |-> TRUE,  tables |-> <<"orders">>] >>
ShapeOf(n) == SourceShapes[((n - 1) % Len(SourceShapes)) + 1]

Source(id, shape) ==
    [id |-> id, status |-> shape.status, hasSchema |-> shape.hasSchema,
     tables |-> shape.tables]

\* error bodies of a non-success response
\*   parsable = FALSE: response.json() rejects
\*   detailKind: "string" | "object" | "absent"
ErrorBody(parsable, kind, detail, detailMessage, message) ==
    [parsable |-> parsable, detailKind |-> kind, detail |-> detail,
     detailMessage |-> detailMessage, message |-> message]
NoErrorBody == ErrorBody(TRUE, "absent", "", "", "")
ErrorBodies ==
    { ErrorBody(FALSE, "absent", "", "", ""),
      ErrorBody(TRUE, "string", "syntax error", "", ""),
      ErrorBody(TRUE, "string", "", "", ""),
      ErrorBody(TRUE, "object", "", "no such table", ""),
      NoErrorBody }
\* the bodies the create and generate endpoints answer a failure with
DetailBodies ==
    { ErrorBody(FALSE, "absent", "", "", ""),
      ErrorBody(TRUE, "string", "connection refused", "", "") }

\* a JSON value in a result row: null, a number, a string (its characters)
\* or a boolean
JNull == [type |-> "null", num |-> 0, str |-> <<>>, bool |-> FALSE]
JNum(n) == [type |-> "number", num |-> n, str |-> <<>>, bool |-> FALSE]
JStr(s) == [type |-> "string", num |-> 0, str |-> s, bool |-> FALSE]
JBool(b) == [type |-> "boolean", num |-> 0, str |-> <<>>, bool |-> b]

\* bodies of a successful query response; either key may be missing
QueryBody(parsable, hasColumns, columns, hasRows, rows) ==
    [parsable |-> parsable, hasColumns |-> hasColumns, columns |-> columns,
     hasRows |-> hasRows, rows |-> rows]
NoQueryBody == QueryBody(TRUE, FALSE, <<>>, FALSE, <<>>)
QueryBodies ==
    { QueryBody(TRUE, TRUE, <<"id">>, TRUE,
                << <<JNum(1234)>>, <<JStr(<<>>)>> >>),
      QueryBody(TRUE, TRUE, <<"id", "name">>, TRUE, <<>>),
      QueryBody(TRUE, FALSE, <<>>, TRUE,
                << <<JStr(<<"N", "U", "L", "L">>), JNull>>, <<JBool(TRUE)>> >>),
      NoQueryBody,
      QueryBody(FALSE, FALSE, <<>>, FALSE, <<>>) }

\* metric.change as the API sends it: absent, a number, or a string
NoChange == [kind |-> "absent", num |-> 0, str |-> <<>>]
NumChange(n) == [kind |-> "number", num |-> n, str |-> <<>>]
StrChange(s) == [kind |-> "string", num |-> 0, str |-> s]
\* a metric of an insight; label / name / unit are "" when the key is absent
Metric(label, name, value, change, unit) ==
    [label |-> label, name |-> name, value |-> value, change |-> change,
     unit |-> unit]
\* the metrics the generate endpoint may attach to an insight
SampleMetrics ==
    << Metric("Growth", "", 15, NumChange(3), ""),
       Metric("", "Growth", 15, StrChange(<<"+", "3">>), ""),
       Metric("", "Growth", 15, StrChange(<<"3">>), ""),
       Metric("Churn", "", 2, NumChange(-1), "%"),
       Metric("", "Churn", 2, StrChange(<<"-", "1">>), "%"),
       Metric("Users", "", 40, NoChange, "") >>

\* bodies of a successful generate response: a list of insight records
InsightBody(parsable, items) == [parsable |-> parsable, items |-> items]
NoInsightBody == InsightBody(TRUE, <<>>)
InsightBodies ==
    { NoInsightBody,
      InsightBody(TRUE, <<[id |-> "i1", data_source_id |-> "d1", type |-> "",
                           metrics |-> SampleMetrics]>>),
      InsightBody(FALSE, <<>>) }

NoPayload == [name |-> "", type |-> "", config |-> [none |-> TRUE]]

\* a fetch in flight: kind is the endpoint, cont the handler awaiting it;
\* net is the bag of them
Blank == [kind |-> "", page |-> "", cont |-> "", target |-> "",
         text |-> <<>>, payload |-> NoPayload, before |-> <<>>,
         phase |-> "", ok |-> FALSE, list |-> <<>>, qbody |-> NoQueryBody,
         ebody |-> NoErrorBody, ibody |-> NoInsightBody]

\* a fetch just sent
Request(kind, page, cont, target) ==
    [Blank EXCEPT !.kind = kind, !.page = page, !.cont = cont,
                 !.target = target, !.phase = "sent"]

Requests == BagToSet(net)
One(r) == SetToBag({r})
\* how many fetches of an endpoint are in flight
InFlight(kind) ==
    BagCardinality([r \in {q \in Requests : q.kind = kind} |-> net[r]])
HasFreeSlot == BagCardinality(net) < MaxInFlight
Send(req) == net (+) One(req)
Replace(r, req) == (net (-) One(r)) (+) One(req)
\* a handler that sends its request again once the awaited fetch has settled
RemoveAndResend(r) == Replace(r, [r EXCEPT !.phase = "sent"])
Remove(r) == net (-) One(r)

\* how many fetches of an endpoint a bag holds
InFlightIn(bag, kind) ==
    BagCardinality([r \in {q \in BagToSet(bag) : q.kind = kind} |-> bag[r]])

ServerIds == {server.sources[i].id : i \in 1..Len(server.sources)}

\* GET /datasources
BackendList(r) ==
    /\ r.kind = "list" /\ r.phase = "sent"
    /\ \/ net' = Replace(r, [r EXCEPT !.phase = "answered", !.ok = TRUE,
                                      !.list = server.sources])
       \/ net' = Replace(r, [r EXCEPT !.phase = "answered", !.ok = FALSE])
    /\ toast' = NoToast
    /\ returned' = ""
    /\ UNCHANGED <<chat, store, mounted, server, dsPage, explorer, insights>>

\* POST /datasources: the id and the status are assigned by the backend
BackendCreate(r) ==
    /\ r.kind = "create" /\ r.phase = "sent"
    /\ \/ /\ server.created < MaxCreates
          /\ server' = [sources |-> Append(server.sources,
                                           Source(IdOf(server.nextId),
                                                  ShapeOf(server.nextId))),
                        nextId |-> server.nextId + 1,
                        created |-> server.created + 1]
          /\ net' = Replace(r, [r EXCEPT !.phase = "answered", !.ok = TRUE])
       \/ /\ \E e \in DetailBodies :
                net' = Replace(r, [r EXCEPT !.phase = "answered", !.ok = FALSE,
                                      !.ebody = e])
          /\ UNCHANGED server
    /\ toast' = NoToast
    /\ returned' = ""
    /\ UNCHANGED <<chat, store, mounted, dsPage, explorer, insights>>

\* DELETE /datasources/{id}
BackendDelete(r) ==
    /\ r.kind = "delete" /\ r.phase = "sent"
    /\ \/ /\ r.target \in ServerIds
          /\ server' = [server EXCEPT
                           !.sources = SeqFilterId(server.sources, r.target)]
          /\ net' = Replace(r, [r EXCEPT !.phase = "answered", !.ok = TRUE])
       \/ /\ net' = Replace(r, [r EXCEPT !.phase = "answered", !.ok = FALSE])
          /\ UNCHANGED server
    /\ toast' = NoToast
    /\ returned' = ""
    /\ UNCHANGED <<chat, store, mounted, dsPage, explorer, insights>>

\* POST /datasources/{id}/query
BackendQuery(r) ==
    /\ r.kind = "query" /\ r.phase = "sent"
    /\ \/ \E b \in QueryBodies :
             net' = Replace(r, [r EXCEPT !.phase = "answered", !.ok = TRUE,
                                      !.qbody = b])
       \/ \E e \in ErrorBodies :
             net' = Replace(r, [r EXCEPT !.phase = "answered", !.ok = FALSE,
                                      !.ebody = e])
    /\ toast' = NoToast
    /\ returned' = ""
    /\ UNCHANGED <<chat, store, mounted, server, dsPage, explorer, insights>>

\* POST /insights/generate
BackendGenerate(r) ==
    /\ r.kind = "generate" /\ r.phase = "sent"
    /\ \/ \E b \in InsightBodies :
             net' = Replace(r, [r EXCEPT !.phase = "answered", !.ok = TRUE,
                                      !.ibody = b])
       \/ \E e \in DetailBodies :
             net' = Replace(r, [r EXCEPT !.phase = "answered", !.ok = FALSE,
                                      !.ebody = e])
    /\ toast' = NoToast
    /\ returned' = ""
    /\ UNCHANGED <<chat, store, mounted, server, dsPage, explorer, insights>>

\* how an awaited fetch can end for the handler:
\*   "reject"  fetch itself rejects (transport failure), at any time
\*   "ok"      success status, body parsed
\*   "notok"   non-success status
Outcomes(r) ==
    {"reject"} \cup (IF r.phase = "answered"
                     THEN {IF r.ok THEN "ok" ELSE "notok"}
                     ELSE {})

----------------------------------------------------------------------------
(* Explorer page *)

\* text is a sequence of characters / tokens; String.prototype.trim
Whitespace == {" ", "\n"}
RECURSIVE TrimStart(_)
TrimStart(s) ==
    IF s # <<>> /\ Head(s) \in Whitespace THEN TrimStart(Tail(s)) ELSE s
RECURSIVE TrimEnd(_)
TrimEnd(s) ==
    IF s # <<>> /\ s[Len(s)] \in Whitespace
    THEN TrimEnd(SubSeq(s, 1, Len(s) - 1)) ELSE s
Trim(s) == TrimEnd(TrimStart(s))

\* what the user may type into the query box
QueryInputs == { <<>>, <<" ">>, <<"SELECT 1">>, <<" ", "SELECT 1">> }

ExplorerInit ==
    [dataSources |-> <<>>, selectedDataSource |-> "", selectedTable |-> "",
     query |-> <<>>, isExecuting |-> FALSE, columns |-> <<>>,
     results |-> NullResults, executionTime |-> NoTime, isLoading |-> TRUE]

\* sources.map(...): tables: source.schema_data?.tables || []
ExTransform(list) ==
    [k \in 1..Len(list) |->
        [id |-> list[k].id,
         tables |-> IF list[k].hasSchema THEN list[k].tables ELSE <<>>]]

\* useEffect(() => { loadDataSources() }, [])
ExMount ==
    /\ "explorer" \notin mounted
    /\ HasFreeSlot
    /\ mounted' = mounted \cup {"explorer"}
    /\ net' = Send(Request("list", "explorer", "mount", ""))
    /\ toast' = NoToast
    /\ returned' = ""
    /\ UNCHANGED <<chat, store, server, dsPage, explorer, insights>>

\* the notification loadDataSources raises on each outcome
ExLoadToast(out) ==
    IF out = "reject" THEN ErrorToast("Failed to load data sources") ELSE NoToast

\* loadDataSources after its await
ExLoadDone(r) ==
    /\ r.kind = "list" /\ r.page = "explorer"
    /\ \E out \in Outcomes(r) :
        /\ explorer' =
             [explorer EXCEPT
                !.dataSources = IF out = "ok" THEN ExTransform(r.list) ELSE @,
                !.isLoading = FALSE]
        /\ toast' = ExLoadToast(out)
    /\ net' = Remove(r)
    /\ returned' = ""
    /\ UNCHANGED <<chat, store, mounted, server, dsPage, insights>>

ExSourceIds == {explorer.dataSources[k].id : k \in 1..Len(explorer.dataSources)}

\* dataSources.find((ds) => ds.id === selectedDataSource)?.tables
CurrentTables ==
    IF explorer.selectedDataSource \in ExSourceIds
    THEN LET k == CHOOSE k \in 1..Len(explorer.dataSources) :
                    /\ explorer.dataSources[k].id = explorer.selectedDataSource
                    /\ \A j \in 1..(k - 1) :
                          explorer.dataSources[j].id # explorer.selectedDataSource
         IN  Range(explorer.dataSources[k].tables)
    ELSE {}

\* <Select value={selectedDataSource} onValueChange={setSelectedDataSource}>
ExSelectDataSource(id) ==
    /\ "explorer" \in mounted
    /\ id \in ExSourceIds
    /\ explorer' = [explorer EXCEPT !.selectedDataSource = id]
    /\ toast' = NoToast
    /\ returned' = ""
    /\ UNCHANGED <<chat, store, mounted, server, net, dsPage, insights>>

\* `SELECT * FROM ${tableName} LIMIT 100;`
TableQuery(t) == <<"SELECT * FROM ", t, " LIMIT 100;">>
\* a table click that also drops the displayed result
TableSelectedClearing(ex, t) ==
    [ex EXCEPT !.selectedTable = t, !.query = TableQuery(t),
               !.results = NullResults, !.columns = <<>>,
               !.executionTime = NoTime]
\* setSelectedTable(tableName); setQuery(...)
TableSelected(ex, t) ==
    [ex EXCEPT !.selectedTable = t, !.query = TableQuery(t)]

\* handleTableSelect, offered for the tables of the current data source
ExTableSelect(t) ==
    /\ "explorer" \in mounted
    /\ explorer.selectedDataSource # ""
    /\ t \in CurrentTables
    /\ explorer' = TableSelected(explorer, t)
    /\ toast' = NoToast
    /\ returned' = ""
    /\ UNCHANGED <<chat, store, mounted, server, net, dsPage, insights>>

\* <Textarea onChange={(e) => setQuery(e.target.value)}>
ExSetQuery(text) ==
    /\ "explorer" \in mounted
    /\ explorer' = [explorer EXCEPT !.query = text]
    /\ toast' = NoToast
    /\ returned' = ""
    /\ UNCHANGED <<chat, store, mounted, server, net, dsPage, insights>>

\* a Run button that ignores the flag: disabled={!query.trim()}
RunQueryDisabledBlankOnly == Trim(explorer.query) = <<>>

\* Run Query button: disabled={!query.trim() || isExecuting}
RunQueryDisabled ==
    Trim(explorer.query) = <<>> \/ explorer.isExecuting

\* a guard that forgets the selection: if (!query.trim()) return;
ExecuteQueryRejectedQueryOnly == Trim(explorer.query) = <<>>

\* handleExecuteQuery: if (!query.trim() || !selectedDataSource) return;
ExecuteQueryRejected ==
    Trim(explorer.query) = <<>> \/ explorer.selectedDataSource = ""

\* what the handler will compare against: the rendered result state
ResultState(ex) == <<ex.results, ex.columns, ex.executionTime>>

\* handleExecuteQuery up to the await
ExRunClick ==
    /\ "explorer" \in mounted
    /\ ~RunQueryDisabled
    /\ IF ExecuteQueryRejected
       THEN /\ returned' = "handleExecuteQuery"
            /\ UNCHANGED <<net, explorer>>
       ELSE /\ HasFreeSlot
            /\ explorer' = [explorer EXCEPT !.isExecuting = TRUE]
            /\ net' = Send([Request("query", "explorer", "",
                                    explorer.selectedDataSource)
                              EXCEPT !.text = Trim(explorer.query),
                                     !.before = ResultState(explorer)])
            /\ returned' = ""
    /\ toast' = NoToast
    /\ UNCHANGED <<chat, store, mounted, server, dsPage, insights>>

\* error.detail / error.detail.message / error.message / JSON.stringify / default
QueryErrorMessage(e) ==
    IF e.detailKind = "string" THEN e.detail
    ELSE IF e.detailKind = "object" /\ e.detailMessage # "" THEN e.detailMessage
    ELSE IF e.message # "" THEN e.message
    ELSE IF e.detailKind = "object" THEN "{json of detail}"
    ELSE "Query execution failed"

\* the outcome the handler sees once response.json() has been awaited too
QueryOutcome(r, out) ==
    IF out = "ok" /\ ~r.qbody.parsable THEN "parse"
    ELSE IF out = "notok" /\ ~r.ebody.parsable THEN "parse_error_body"
    ELSE out

\* catch: toast.error(error.message)
QueryFailureToast(r, o) ==
    IF o = "reject" THEN ErrorToast("Failed to fetch")
    ELSE IF o = "notok" THEN ErrorToast(QueryErrorMessage(r.ebody))
    ELSE ErrorToast("Unexpected token in JSON")

\* try-block tail on success: setColumns / setResults / setExecutionTime
ExQuerySucceeded(ex, body, elapsed) ==
    [ex EXCEPT !.columns = IF body.hasColumns THEN body.columns ELSE <<>>,
               !.results = Rows(IF body.hasRows THEN body.rows ELSE <<>>),
               !.executionTime = Ms(elapsed),
               !.isExecuting = FALSE]

\* the results card: {results ? <table> : "No results yet"}
TableShown(ex) == ~ex.results.isNull
\* <thead>: columns.map(col => <th>)
HeaderCells(ex) == Len(ex.columns)
\* <tbody>: results.map(row => <tr>{row.map(value => <td>)}</tr>)
RowCells(ex, i) == Len(ex.results.rows[i])

\* decimal digits of a natural number
RECURSIVE Digits(_)
Digits(n) ==
    IF n < 10 THEN <<SubSeq(<<"0","1","2","3","4","5","6","7","8","9">>, n + 1, n + 1)[1]>>
    ELSE Digits(n \div 10) \o Digits(n % 10)
\* Number.prototype.toLocaleString: groups of three digits from the right
RECURSIVE GroupDigits(_)
GroupDigits(ds) ==
    IF Len(ds) <= 3 THEN ds
    ELSE GroupDigits(SubSeq(ds, 1, Len(ds) - 3)) \o <<",">>
            \o SubSeq(ds, Len(ds) - 2, Len(ds))
toLocaleString(n) == GroupDigits(Digits(n))
\* String(value) for a non-null, non-number value
StringOf(v) ==
    IF v.type = "string" THEN v.str
    ELSE IF v.bool THEN <<"t", "r", "u", "e">> ELSE <<"f", "a", "l", "s", "e">>

\* what a <td> holds: text, inside the muted italic span or bare
Marked(text) == [italic |-> TRUE, text |-> text]
Plain(text) == [italic |-> FALSE, text |-> text]
NullMarker == Marked(<<"N", "U", "L", "L">>)
\* a cell renderer that writes NULL as bare text
RenderCellBare(v) ==
    IF v.type = "null" THEN Plain(<<"N", "U", "L", "L">>)
    ELSE IF v.type = "number" THEN Plain(toLocaleString(v.num))
    ELSE Plain(StringOf(v))
\* value === null ? <span italic>NULL</span>
\*   : typeof value === "number" ? value.toLocaleString() : String(value)
RenderCell(v) ==
    IF v.type = "null" THEN NullMarker
    ELSE IF v.type = "number" THEN Plain(toLocaleString(v.num))
    ELSE Plain(StringOf(v))
\* the cells of the displayed table, row by row
RenderedRows(ex) ==
    [i \in 1..Len(ex.results.rows) |->
        [j \in 1..Len(ex.results.rows[i]) |-> RenderCell(ex.results.rows[i][j])]]

\* a catch block that also clears the rendered result (flash-to-empty)
ExQueryFailedClearing(ex) ==
    [ex EXCEPT !.isExecuting = FALSE, !.results = NullResults,
               !.columns = <<>>, !.executionTime = NoTime]

\* a catch block without the finally: the flag is left set
ExQueryFailedStuck(ex) == ex

\* catch + finally on failure
ExQueryFailed(ex) == [ex EXCEPT !.isExecuting = FALSE]

\* handleExecuteQuery after its awaits
ExQueryDone(r) ==
    /\ r.kind = "query"
    /\ \E out \in Outcomes(r) :
        LET o == QueryOutcome(r, out) IN
        /\ IF o = "ok"
           THEN /\ \E elapsed \in 0..MaxElapsed :
                     explorer' = ExQuerySucceeded(explorer, r.qbody, elapsed)
                /\ toast' = SuccessToast("Query executed successfully")
           ELSE /\ explorer' = ExQueryFailed(explorer)
                /\ toast' = QueryFailureToast(r, o)
    /\ net' = Remove(r)
    /\ returned' = ""
    /\ UNCHANGED <<chat, store, mounted, server, dsPage, insights>>

----------------------------------------------------------------------------
(* Data Sources page *)

dataSourceTypes ==
    << [id |-> "postgresql", defaultPort |-> "5432"],
       [id |-> "mysql",      defaultPort |-> "3306"],
       [id |-> "mongodb",    defaultPort |-> "27017"],
       [id |-> "sqlite",     defaultPort |-> ""],
       [id |-> "snowflake",  defaultPort |-> ""],
       [id |-> "bigquery",   defaultPort |-> ""],
       [id |-> "redshift",   defaultPort |-> "5439"],
       [id |-> "csv",        defaultPort |-> ""],
       [id |-> "rest_api",   defaultPort |-> ""] >>

TypeIds == {dataSourceTypes[k].id : k \in 1..Len(dataSourceTypes)}
DefaultPort(t) ==
    (CHOOSE ty \in Range(dataSourceTypes) : ty.id = t).defaultPort

DefaultForm ==
    [name |-> "", host |-> "localhost", port |-> "", database |-> "",
     username |-> "", password |-> "", url |-> "", apiKey |-> ""]

\* file: the file held by the uncontrolled <Input id="file" type="file">
DsPageInit ==
    [isDialogOpen |-> FALSE, selectedType |-> "", isConnecting |-> FALSE,
     dataSources |-> <<>>, formData |-> DefaultForm, file |-> ""]

\* {selectedType === "csv" && <Input id="file" .../>} inside the dialog: the
\* input holds its file only while it is rendered
FileInputShown(p) == p.isDialogOpen /\ p.selectedType = "csv"
Rendered(p) == IF FileInputShown(p) THEN p ELSE [p EXCEPT !.file = ""]

\* sources.map(...): status: s.status || "connected",
\*                   tables: s.schema_data?.tables?.length || 0
MapSources(list) ==
    [k \in 1..Len(list) |->
        [id |-> list[k].id,
         status |-> IF list[k].status = "" THEN "connected" ELSE list[k].status,
         tables |-> IF list[k].hasSchema THEN Len(list[k].tables) ELSE 0]]

DsSourceIds == {dsPage.dataSources[k].id : k \in 1..Len(dsPage.dataSources)}

\* resetForm
ResetForm(p) == [p EXCEPT !.selectedType = "", !.formData = DefaultForm]

\* useEffect(() => { loadDataSources() }, [])
DsMount ==
    /\ "datasources" \notin mounted
    /\ HasFreeSlot
    /\ mounted' = mounted \cup {"datasources"}
    /\ net' = Send(Request("list", "datasources", "mount", ""))
    /\ toast' = NoToast
    /\ returned' = ""
    /\ UNCHANGED <<chat, store, server, dsPage, explorer, insights>>

\* <Dialog onOpenChange>: opened by the Add Data Source trigger
DsOpenDialog ==
    /\ "datasources" \in mounted
    /\ ~dsPage.isDialogOpen
    /\ dsPage' = [dsPage EXCEPT !.isDialogOpen = TRUE]
    /\ toast' = NoToast
    /\ returned' = ""
    /\ UNCHANGED <<chat, store, mounted, server, net, explorer, insights>>

\* <Dialog onOpenChange>: dismissed (Escape, overlay, close icon)
DsDismissDialog ==
    /\ "datasources" \in mounted
    /\ dsPage.isDialogOpen
    /\ dsPage' = Rendered(ResetForm([dsPage EXCEPT !.isDialogOpen = FALSE]))
    /\ toast' = NoToast
    /\ returned' = ""
    /\ UNCHANGED <<chat, store, mounted, server, net, explorer, insights>>

\* Cancel button: onClick={() => setIsDialogOpen(false)}
DsCancel ==
    /\ "datasources" \in mounted
    /\ dsPage.isDialogOpen
    /\ dsPage' = Rendered([dsPage EXCEPT !.isDialogOpen = FALSE])
    /\ toast' = NoToast
    /\ returned' = ""
    /\ UNCHANGED <<chat, store, mounted, server, net, explorer, insights>>

\* a handleTypeSelect that starts the form afresh for the new type
TypeSelectedResetting(p, t) ==
    [p EXCEPT !.selectedType = t,
              !.formData = [DefaultForm EXCEPT !.port = DefaultPort(t)]]

\* handleTypeSelect: setSelectedType, then the port of the type's entry
TypeSelected(p, t) ==
    [p EXCEPT !.selectedType = t, !.formData.port = DefaultPort(t)]

\* a type button is clicked
DsTypeSelect(t) ==
    /\ "datasources" \in mounted
    /\ dsPage.isDialogOpen
    /\ t \in TypeIds
    /\ dsPage' = Rendered(TypeSelected(dsPage, t))
    /\ toast' = NoToast
    /\ returned' = ""
    /\ UNCHANGED <<chat, store, mounted, server, net, explorer, insights>>

\* the inputs rendered for a selected type
VisibleFields(t) ==
    IF t = "" THEN {}
    ELSE {"name"} \cup
         (IF t \notin {"csv", "rest_api"}
          THEN {"host", "port", "database", "username", "password"} ELSE {}) \cup
         (IF t = "rest_api" THEN {"url", "apiKey"} ELSE {})

\* handleInputChange
DsInputChange(f, v) ==
    /\ "datasources" \in mounted
    /\ dsPage.isDialogOpen
    /\ f \in VisibleFields(dsPage.selectedType)
    /\ dsPage' = [dsPage EXCEPT !.formData[f] = v]
    /\ toast' = NoToast
    /\ returned' = ""
    /\ UNCHANGED <<chat, store, mounted, server, net, explorer, insights>>

\* a Connect button that only looks at the flag: disabled={isConnecting}
ConnectDisabledBusyOnly == dsPage.isConnecting

\* a file is picked in the CSV file input
DsChooseFile(f) ==
    /\ "datasources" \in mounted
    /\ FileInputShown(dsPage)
    /\ dsPage' = [dsPage EXCEPT !.file = f]
    /\ toast' = NoToast
    /\ returned' = ""
    /\ UNCHANGED <<chat, store, mounted, server, net, explorer, insights>>

\* Connect button: disabled={!selectedType || isConnecting}
ConnectDisabled == dsPage.selectedType = "" \/ dsPage.isConnecting

\* a handleConnect without the name check
ConnectRejectedNever == FALSE

\* handleConnect: if (!formData.name) { toast.error(...); return; }
ConnectRejected == dsPage.formData.name = ""

\* parseInt(formData.port) || undefined: the port key is dropped from the
\* JSON body when the text is no number or is 0
PortNumbers ==
    { <<"5432", 5432>>, <<"3306", 3306>>, <<"27017", 27017>>,
      <<"5439", 5439>>, <<"5433", 5433>>, <<"0", 0>> }
HasPort(text) == \E pn \in PortNumbers : pn[1] = text /\ pn[2] # 0
PortOf(text) == (CHOOSE pn \in PortNumbers : pn[1] = text)[2]

\* connectionConfig by type
ConnectionConfig(t, f) ==
    IF t = "rest_api" THEN [url |-> f.url, api_key |-> f.apiKey]
    ELSE IF t = "csv" THEN [file_path |-> f.name]
    ELSE IF HasPort(f.port)
         THEN [host |-> f.host, port |-> PortOf(f.port), database |-> f.database,
               username |-> f.username, password |-> f.password]
         ELSE [host |-> f.host, database |-> f.database,
               username |-> f.username, password |-> f.password]

\* handleConnect up to the await
DsConnectClick ==
    /\ "datasources" \in mounted
    /\ dsPage.isDialogOpen
    /\ ~ConnectDisabled
    /\ IF ConnectRejected
       THEN /\ toast' = ErrorToast("Please enter a connection name")
            /\ returned' = "handleConnect"
            /\ UNCHANGED <<net, dsPage>>
       ELSE /\ HasFreeSlot
            /\ dsPage' = [dsPage EXCEPT !.isConnecting = TRUE]
            /\ net' = Send([Request("create", "datasources", "", "")
                              EXCEPT !.payload =
                                [name |-> dsPage.formData.name,
                                 type |-> dsPage.selectedType,
                                 config |-> ConnectionConfig(dsPage.selectedType,
                                                             dsPage.formData)]])
            /\ toast' = NoToast
            /\ returned' = ""
    /\ UNCHANGED <<chat, store, mounted, server, explorer, insights>>

\* new Error(error.detail || "Failed to connect to data source")
ConnectErrorMessage(e) ==
    IF e.detailKind = "string" /\ e.detail # "" THEN e.detail
    ELSE IF e.detailKind = "object" THEN "[object Object]"
    ELSE "Failed to connect to data source"

\* the outcome once the error body has been awaited too
MutationOutcome(r, out) ==
    IF out = "notok" /\ r.kind = "create" /\ ~r.ebody.parsable
    THEN "parse_error_body" ELSE out

ConnectFailureToast(r, o) ==
    IF o = "reject" THEN ErrorToast("Failed to fetch")
    ELSE IF o = "notok" THEN ErrorToast(ConnectErrorMessage(r.ebody))
    ELSE ErrorToast("Unexpected token in JSON")

\* handleConnect, response ok: nothing local before the reload
DsCreateSucceeded(p) == p

\* a catch block that closes the dialog and resets the form, as success does
DsConnectFailedClosing(p) ==
    [ResetForm([p EXCEPT !.isDialogOpen = FALSE]) EXCEPT !.isConnecting = FALSE]

\* handleConnect, catch + finally
DsConnectFailed(p) == [p EXCEPT !.isConnecting = FALSE]

\* handleConnect after the POST: on success it awaits loadDataSources()
DsCreateDone(r) ==
    /\ r.kind = "create"
    /\ \E out \in Outcomes(r) :
        LET o == MutationOutcome(r, out) IN
        /\ IF o = "ok"
           THEN /\ dsPage' = DsCreateSucceeded(dsPage)
                /\ net' = Replace(r, Request("list", "datasources", "connect", ""))
                /\ toast' = NoToast
           ELSE /\ dsPage' = DsConnectFailed(dsPage)
                /\ net' = Remove(r)
                /\ toast' = ConnectFailureToast(r, o)
    /\ returned' = ""
    /\ UNCHANGED <<chat, store, mounted, server, explorer, insights>>

\* whether the Delete menu item of a listed source is out of reach: it
\* carries no disabled prop; only the open (modal) dialog covers the list
DeleteDisabled(id) == dsPage.isDialogOpen

\* handleDelete up to the await
DsDeleteClick(id) ==
    /\ "datasources" \in mounted
    /\ id \in DsSourceIds
    /\ ~DeleteDisabled(id)
    /\ HasFreeSlot
    /\ net' = Send(Request("delete", "datasources", "", id))
    /\ toast' = NoToast
    /\ returned' = ""
    /\ UNCHANGED <<chat, store, mounted, server, dsPage, explorer, insights>>

\* an optimistic delete: the entry is dropped from the local list at once
DsDeleteSucceededOptimistic(p, id) ==
    [p EXCEPT !.dataSources = SeqFilterId(@, id)]

\* handleDelete, response ok: nothing local before the reload
DsDeleteSucceeded(p, id) == p

\* handleDelete, catch
DsDeleteFailed(p, id) == p

DeleteFailureToast(o) ==
    IF o = "reject" THEN ErrorToast("Failed to fetch")
    ELSE ErrorToast("Failed to delete data source")

\* handleDelete after the DELETE: on success it awaits loadDataSources()
DsDeleteDone(r) ==
    /\ r.kind = "delete"
    /\ \E out \in Outcomes(r) :
        /\ IF out = "ok"
           THEN /\ dsPage' = DsDeleteSucceeded(dsPage, r.target)
                /\ net' = Replace(r, Request("list", "datasources", "delete",
                                              r.target))
                /\ toast' = NoToast
           ELSE /\ dsPage' = DsDeleteFailed(dsPage, r.target)
                /\ net' = Remove(r)
                /\ toast' = DeleteFailureToast(out)
    /\ returned' = ""
    /\ UNCHANGED <<chat, store, mounted, server, explorer, insights>>

\* loadDataSources: only a success response replaces the list
DsLoaded(p, out, list) ==
    [p EXCEPT !.dataSources = IF out = "ok" THEN MapSources(list) ELSE @]

\* the rest of the handler that awaited loadDataSources()
DsAfterLoad(p, cont) ==
    IF cont = "connect"
    THEN Rendered([ResetForm([p EXCEPT !.isDialogOpen = FALSE])
                     EXCEPT !.isConnecting = FALSE])
    ELSE p

\* loadDataSources swallows its failures (console.error); the caller toasts
DsAfterLoadToast(r) ==
    IF r.cont = "connect" THEN SuccessToast("Data source connected successfully!")
    ELSE IF r.cont = "delete"
         THEN [SuccessToast("has been deleted") EXCEPT !.subject = r.target]
    ELSE NoToast

\* loadDataSources after its await, then the caller's continuation
DsListDone(r) ==
    /\ r.kind = "list" /\ r.page = "datasources"
    /\ \E out \in Outcomes(r) :
        /\ dsPage' = DsAfterLoad(DsLoaded(dsPage, out, r.list), r.cont)
    /\ toast' = DsAfterLoadToast(r)
    /\ net' = Remove(r)
    /\ returned' = ""
    /\ UNCHANGED <<chat, store, mounted, server, explorer, insights>>

----------------------------------------------------------------------------
(* Insights page *)

InsightsInit ==
    [selectedType |-> "all", isGenerating |-> FALSE, insights |-> <<>>,
     dataSources |-> <<>>, selectedDataSource |-> "all", isLoading |-> TRUE]

\* useEffect(() => { loadDataSources(); setIsLoading(false); }, [])
InMount ==
    /\ "insights" \notin mounted
    /\ HasFreeSlot
    /\ mounted' = mounted \cup {"insights"}
    /\ net' = Send(Request("list", "insights", "mount", ""))
    /\ insights' = [insights EXCEPT !.isLoading = FALSE]
    /\ toast' = NoToast
    /\ returned' = ""
    /\ UNCHANGED <<chat, store, server, dsPage, explorer>>

\* loadDataSources after its await: setDataSources(data) on success only
InListDone(r) ==
    /\ r.kind = "list" /\ r.page = "insights"
    /\ \E out \in Outcomes(r) :
        /\ insights' = [insights EXCEPT
                          !.dataSources = IF out = "ok" THEN r.list ELSE @]
    /\ toast' = NoToast
    /\ net' = Remove(r)
    /\ returned' = ""
    /\ UNCHANGED <<chat, store, mounted, server, dsPage, explorer>>

InSourceIds == {insights.dataSources[k].id : k \in 1..Len(insights.dataSources)}

\* <Select value={selectedDataSource} onValueChange={setSelectedDataSource}>
InSelectDataSource(v) ==
    /\ "insights" \in mounted
    /\ v \in {"all"} \cup InSourceIds
    /\ insights' = [insights EXCEPT !.selectedDataSource = v]
    /\ toast' = NoToast
    /\ returned' = ""
    /\ UNCHANGED <<chat, store, mounted, server, net, dsPage, explorer>>

insightTypes == <<"all", "trend", "anomaly", "correlation", "recommendation">>

\* filter button: onClick={() => setSelectedType(type.id)}
InSetSelectedType(t) ==
    /\ "insights" \in mounted
    /\ t \in Range(insightTypes)
    /\ insights' = [insights EXCEPT !.selectedType = t]
    /\ toast' = NoToast
    /\ returned' = ""
    /\ UNCHANGED <<chat, store, mounted, server, net, dsPage, explorer>>

\* filteredInsights
RECURSIVE FilterByType(_, _)
FilterByType(items, t) ==
    IF items = <<>> THEN <<>>
    ELSE IF Head(items).type = t
         THEN <<Head(items)>> \o FilterByType(Tail(items), t)
         ELSE FilterByType(Tail(items), t)
FilteredInsights ==
    IF insights.selectedType = "all" THEN insights.insights
    ELSE FilterByType(insights.insights, insights.selectedType)

\* decimal text of an integer: `${n}`
NumText(n) == IF n < 0 THEN <<"-">> \o Digits(0 - n) ELSE Digits(n)
\* Number(text): an optionally signed run of digits, "" is 0, otherwise NaN
DigitChars == {"0", "1", "2", "3", "4", "5", "6", "7", "8", "9"}
NaN == [nan |-> TRUE, val |-> 0]
Num(v) == [nan |-> FALSE, val |-> v]
RECURSIVE DigitsValue(_)
DigitsValue(ds) ==
    IF ds = <<>> THEN 0
    ELSE DigitsValue(SubSeq(ds, 1, Len(ds) - 1)) * 10
            + (CHOOSE k \in 0..9 : Digits(k) = <<ds[Len(ds)]>>)
Number(text) ==
    LET body == IF text # <<>> /\ Head(text) \in {"+", "-"}
                THEN Tail(text) ELSE text
    IN  IF text = <<>> THEN Num(0)
        ELSE IF body = <<>> \/ \E i \in 1..Len(body) : body[i] \notin DigitChars
             THEN NaN
        ELSE IF Head(text) = "-" THEN Num(0 - DigitsValue(body))
        ELSE Num(DigitsValue(body))
\* String(metric.change) / Number(metric.change)
ChangeString(c) == IF c.kind = "number" THEN NumText(c.num) ELSE c.str
ChangeNumber(c) == IF c.kind = "number" THEN Num(c.num) ELSE Number(c.str)

\* metric.label || metric.name
MetricLabel(m) == IF m.label # "" THEN m.label ELSE m.name
\* Badge variant: startsWith("+") || Number(change) > 0
ChangeBadge(c) ==
    IF c.kind = "absent" THEN "none"
    ELSE IF \/ (ChangeString(c) # <<>> /\ Head(ChangeString(c)) = "+")
            \/ (~ChangeNumber(c).nan /\ ChangeNumber(c).val > 0)
         THEN "success" ELSE "destructive"
\* Badge text: a positive number gets "+", a string is shown as sent
ChangeText(c) ==
    IF c.kind = "absent" THEN <<>>
    ELSE IF c.kind = "number"
         THEN (IF c.num > 0 THEN <<"+">> \o NumText(c.num) ELSE NumText(c.num))
    ELSE c.str
\* one metric tile
RenderMetric(m) ==
    [label |-> MetricLabel(m), value |-> m.value,
     badge |-> ChangeBadge(m.change), change |-> ChangeText(m.change),
     unit |-> IF m.change.kind = "absent" THEN "" ELSE m.unit]
\* the metrics of the insight cards on display
DisplayedMetrics ==
    IF "insights" \in mounted /\ ~insights.isLoading
    THEN UNION { Range(FilteredInsights[k].metrics) :
                    k \in 1..Len(FilteredInsights) }
    ELSE {}

\* what the page renders
\*   the header button is rendered unconditionally
HeaderGenerateShown == "insights" \in mounted
\*   isLoading ? spinner : filteredInsights.length === 0 ? card : grid
EmptyCardShown ==
    /\ "insights" \in mounted
    /\ ~insights.isLoading
    /\ Len(FilteredInsights) = 0
\*   inside the card: dataSources.length === 0 ? link : button
ConnectLinkShown == EmptyCardShown /\ Len(insights.dataSources) = 0
CardGenerateShown == EmptyCardShown /\ Len(insights.dataSources) # 0

\* both Generate Insights buttons: disabled={isGenerating}
GenerateDisabled == insights.isGenerating

\* handleGenerateInsights: if (dataSources.length === 0) { toast.error; return }
GenerateRejected == Len(insights.dataSources) = 0

\* selectedDataSource === "all" ? dataSources[0]?.id : selectedDataSource
TargetSource ==
    IF insights.selectedDataSource = "all"
    THEN insights.dataSources[1].id ELSE insights.selectedDataSource

\* handleGenerateInsights up to the await
InGenerateClick ==
    /\ "insights" \in mounted
    /\ ~GenerateDisabled
    /\ IF GenerateRejected
       THEN /\ toast' = ErrorToast("Please connect a data source first")
            /\ returned' = "handleGenerateInsights"
            /\ UNCHANGED <<net, insights>>
       ELSE /\ HasFreeSlot
            /\ insights' = [insights EXCEPT !.isGenerating = TRUE]
            /\ net' = Send(Request("generate", "insights", "", TargetSource))
            /\ toast' = NoToast
            /\ returned' = ""
    /\ UNCHANGED <<chat, store, mounted, server, dsPage, explorer>>

\* data.map(item => ...): dataSource is the name of the matching source
TransformInsights(items) ==
    [k \in 1..Len(items) |->
        [id |-> items[k].id,
         type |-> IF items[k].type = "" THEN "trend" ELSE items[k].type,
         dataSource |-> IF items[k].data_source_id \in InSourceIds
                        THEN items[k].data_source_id ELSE "Unknown",
         metrics |-> items[k].metrics]]

GenerateOutcome(r, out) ==
    IF out = "ok" /\ ~r.ibody.parsable THEN "parse" ELSE out

\* error.detail || "Failed to generate insights" (json().catch(() => ({})))
GenerateErrorMessage(e) ==
    IF ~e.parsable THEN "Failed to generate insights"
    ELSE IF e.detailKind = "string" /\ e.detail # "" THEN e.detail
    ELSE IF e.detailKind = "object" THEN "[object Object]"
    ELSE "Failed to generate insights"

GenerateToast(r, o) ==
    IF o = "ok" THEN SuccessToast("Generated insights!")
    ELSE IF o = "notok" THEN ErrorToast(GenerateErrorMessage(r.ebody))
    ELSE ErrorToast("Failed to connect to API")

\* handleGenerateInsights after its awaits
InGenerateDone(r) ==
    /\ r.kind = "generate"
    /\ \E out \in Outcomes(r) :
        LET o == GenerateOutcome(r, out) IN
        /\ insights' = [insights EXCEPT
                          !.insights = IF o = "ok"
                                       THEN TransformInsights(r.ibody.items)
                                       ELSE @,
                          !.isGenerating = FALSE]
        /\ toast' = GenerateToast(r, o)
    /\ net' = Remove(r)
    /\ returned' = ""
    /\ UNCHANGED <<chat, store, mounted, server, dsPage, explorer>>

----------------------------------------------------------------------------
(* Chat page and chat store *)

\* longest transcript followed
MaxMessages == 4

mockDataSources == <<"1", "2", "3">>
suggestedQuestions == { <<"What are the top 10 customers by revenue?">> }

\* what the user may type into the chat input
ChatInputs == { <<>>, <<" ">>, <<"total revenue?">> }

Message(role, content) == [role |-> role, content |-> content]

\* timers: the setTimeout continuations of handleSend, each with the input
\* its closure captured
ChatInit ==
    [messages |-> <<>>, input |-> <<>>, isLoading |-> FALSE,
     selectedDataSource |-> "", timers |-> <<>>]

ChMount ==
    /\ "chat" \notin mounted
    /\ mounted' = mounted \cup {"chat"}
    /\ toast' = NoToast
    /\ returned' = ""
    /\ UNCHANGED <<server, net, dsPage, explorer, insights, chat, store>>

\* <Select value={selectedDataSource} onValueChange={setSelectedDataSource}>
ChSelectDataSource(id) ==
    /\ "chat" \in mounted
    /\ id \in Range(mockDataSources)
    /\ chat' = [chat EXCEPT !.selectedDataSource = id]
    /\ toast' = NoToast
    /\ returned' = ""
    /\ UNCHANGED <<mounted, server, net, dsPage, explorer, insights, store>>

\* a chat input that stays enabled while a reply is awaited
ChatInputDisabledNoSource == chat.selectedDataSource = ""

\* chat <Input>: disabled={!selectedDataSource || isLoading}
ChatInputDisabled == chat.selectedDataSource = "" \/ chat.isLoading

\* onChange={(e) => setInput(e.target.value)}
ChSetInput(text) ==
    /\ "chat" \in mounted
    /\ ~ChatInputDisabled
    /\ chat' = [chat EXCEPT !.input = text]
    /\ toast' = NoToast
    /\ returned' = ""
    /\ UNCHANGED <<mounted, server, net, dsPage, explorer, insights, store>>

\* handleSuggestionClick, offered while the transcript is empty
ChSuggestionClick(q) ==
    /\ "chat" \in mounted
    /\ chat.messages = <<>>
    /\ chat' = [chat EXCEPT !.input = q]
    /\ toast' = NoToast
    /\ returned' = ""
    /\ UNCHANGED <<mounted, server, net, dsPage, explorer, insights, store>>

\* Send button: disabled={!input.trim() || !selectedDataSource || isLoading}
SendDisabled ==
    Trim(chat.input) = <<>> \/ chat.selectedDataSource = "" \/ chat.isLoading

\* handleSend: if (!input.trim() || !selectedDataSource) return;
SendRejected == Trim(chat.input) = <<>> \/ chat.selectedDataSource = ""

\* a send that starts the transcript over
UserMessageReplacing(msgs, m) == <<m>>

\* setMessages((prev) => [...prev, userMessage])
UserMessageAdded(msgs, m) == Append(msgs, m)

\* setMessages((prev) => [...prev, assistantMessage])
AssistantMessageAdded(msgs, m) == Append(msgs, m)

\* handleSend up to the await: by the Send button, or by Enter in the input
ChSendClick ==
    /\ "chat" \in mounted
    /\ ~SendDisabled \/ ~ChatInputDisabled
    /\ IF SendRejected
       THEN /\ returned' = "handleSend"
            /\ UNCHANGED chat
       ELSE /\ Len(chat.messages) + 2 <= MaxMessages
            /\ chat' = [chat EXCEPT
                          !.messages = UserMessageAdded(@, Message("user", chat.input)),
                          !.input = <<>>,
                          !.isLoading = TRUE,
                          !.timers = Append(@, chat.input)]
            /\ returned' = ""
    /\ toast' = NoToast
    /\ UNCHANGED <<mounted, server, net, dsPage, explorer, insights, store>>

\* handleSend after the 1500 ms timer: the simulated reply quotes the input
ChReplyTimer ==
    /\ chat.timers # <<>>
    /\ chat' = [chat EXCEPT
                  !.messages = AssistantMessageAdded(
                                   @, Message("assistant", Head(chat.timers))),
                  !.isLoading = FALSE,
                  !.timers = Tail(@)]
    /\ toast' = NoToast
    /\ returned' = ""
    /\ UNCHANGED <<mounted, server, net, dsPage, explorer, insights, store>>

\* useChatStore
ChatStoreInit ==
    [messages |-> <<>>, isLoading |-> FALSE, currentConversationId |-> "null"]

\* useDataSourceStore
MaxStoreSources == 2
NullSource == [isNull |-> TRUE, value |-> [id |-> "", name |-> "", status |-> ""]]
SelectedSource(ds) == [isNull |-> FALSE, value |-> ds]
DataSourceStoreInit ==
    [dataSources |-> <<>>, selectedDataSource |-> NullSource,
     isConnecting |-> FALSE, error |-> "null"]

StoreInit == [chat |-> ChatStoreInit, ds |-> DataSourceStoreInit]

\* arguments the data source store's operations are called with
StoreSources ==
    { [id |-> "d1", name |-> "Sales", status |-> "connected"],
      [id |-> "d1", name |-> "Sales copy", status |-> "connected"],
      [id |-> "d2", name |-> "Logs", status |-> "connected"] }
StoreIds == {"d1", "d2", "d9"}
\* Partial<DataSource>: any subset of the fields, the id included
StoreUpdates ==
    { [name |-> "Renamed"], [status |-> "error"], [id |-> "d2"] }
StoreErrors == {"null", "boom"}

\* { ...ds, ...updates }
Merge(ds, updates) ==
    [f \in DOMAIN ds |-> IF f \in DOMAIN updates THEN updates[f] ELSE ds[f]]
\* Array.prototype.filter(ds => ds.id !== id)
RECURSIVE WithoutId(_, _)
WithoutId(list, id) ==
    IF list = <<>> THEN <<>>
    ELSE IF Head(list).id = id THEN WithoutId(Tail(list), id)
         ELSE <<Head(list)>> \o WithoutId(Tail(list), id)
\* Array.prototype.find(ds => ds.id === id) || null
FindById(list, id) ==
    IF \E k \in 1..Len(list) : list[k].id = id
    THEN SelectedSource(list[CHOOSE k \in 1..Len(list) :
                                /\ list[k].id = id
                                /\ \A j \in 1..(k - 1) : list[j].id # id])
    ELSE NullSource
\* state.selectedDataSource?.id === id
SelectedHasId(s, id) ==
    ~s.selectedDataSource.isNull /\ s.selectedDataSource.value.id = id

\* addDataSource
SourceAdded(s, ds) == [s EXCEPT !.dataSources = Append(@, ds)]
\* a removeDataSource that forgets the selection
SourceRemovedListOnly(s, id) ==
    [s EXCEPT !.dataSources = WithoutId(@, id)]
\* removeDataSource
SourceRemoved(s, id) ==
    [s EXCEPT !.dataSources = WithoutId(@, id),
              !.selectedDataSource =
                  IF SelectedHasId(s, id) THEN NullSource ELSE @]
\* selectDataSource; the id "" stands for null
SourceSelected(s, id) ==
    [s EXCEPT !.selectedDataSource =
                  IF id # "" THEN FindById(s.dataSources, id) ELSE NullSource]
\* updateDataSource
SourceUpdated(s, id, updates) ==
    [s EXCEPT !.dataSources =
                  [k \in 1..Len(@) |->
                      IF @[k].id = id THEN Merge(@[k], updates) ELSE @[k]],
              !.selectedDataSource =
                  IF SelectedHasId(s, id)
                  THEN SelectedSource(Merge(@.value, updates)) ELSE @]

StoreAddDataSource(ds) ==
    /\ Len(store.ds.dataSources) < MaxStoreSources
    /\ store' = [store EXCEPT !.ds = SourceAdded(@, ds)]
    /\ toast' = NoToast
    /\ returned' = ""
    /\ UNCHANGED <<mounted, server, net, dsPage, explorer, insights, chat>>

StoreRemoveDataSource(id) ==
    /\ store' = [store EXCEPT !.ds = SourceRemoved(@, id)]
    /\ toast' = NoToast
    /\ returned' = ""
    /\ UNCHANGED <<mounted, server, net, dsPage, explorer, insights, chat>>

StoreSelectDataSource(id) ==
    /\ store' = [store EXCEPT !.ds = SourceSelected(@, id)]
    /\ toast' = NoToast
    /\ returned' = ""
    /\ UNCHANGED <<mounted, server, net, dsPage, explorer, insights, chat>>

StoreUpdateDataSource(id, updates) ==
    /\ store' = [store EXCEPT !.ds = SourceUpdated(@, id, updates)]
    /\ toast' = NoToast
    /\ returned' = ""
    /\ UNCHANGED <<mounted, server, net, dsPage, explorer, insights, chat>>

\* setConnecting
StoreSetConnecting(b) ==
    /\ store' = [store EXCEPT !.ds.isConnecting = b]
    /\ toast' = NoToast
    /\ returned' = ""
    /\ UNCHANGED <<mounted, server, net, dsPage, explorer, insights, chat>>

\* setError
StoreSetError(e) ==
    /\ store' = [store EXCEPT !.ds.error = e]
    /\ toast' = NoToast
    /\ returned' = ""
    /\ UNCHANGED <<mounted, server, net, dsPage, explorer, insights, chat>>

\* arguments the store's operations are called with
StoreMessages == { Message("user", <<"hi">>), Message("assistant", <<"hello">>) }
StoreTranscripts ==
    { <<>>,
      << Message("assistant", <<"hello">>), Message("user", <<"hi">>) >> }
ConversationIds == {"null", "c1"}

\* addMessage
StoreAddMessage(m) ==
    /\ Len(store.chat.messages) < MaxMessages
    /\ store' = [store EXCEPT !.chat.messages = Append(@, m)]
    /\ toast' = NoToast
    /\ returned' = ""
    /\ UNCHANGED <<mounted, server, net, dsPage, explorer, insights, chat>>

\* setMessages
StoreSetMessages(ms) ==
    /\ store' = [store EXCEPT !.chat.messages = ms]
    /\ toast' = NoToast
    /\ returned' = ""
    /\ UNCHANGED <<mounted, server, net, dsPage, explorer, insights, chat>>

\* setLoading
StoreSetLoading(b) ==
    /\ store' = [store EXCEPT !.chat.isLoading = b]
    /\ toast' = NoToast
    /\ returned' = ""
    /\ UNCHANGED <<mounted, server, net, dsPage, explorer, insights, chat>>

\* clearMessages
StoreClearMessages ==
    /\ store' = [store EXCEPT !.chat.messages = <<>>]
    /\ toast' = NoToast
    /\ returned' = ""
    /\ UNCHANGED <<mounted, server, net, dsPage, explorer, insights, chat>>

\* setConversationId
StoreSetConversationId(id) ==
    /\ store' = [store EXCEPT !.chat.currentConversationId = id]
    /\ toast' = NoToast
    /\ returned' = ""
    /\ UNCHANGED <<mounted, server, net, dsPage, explorer, insights, chat>>

----------------------------------------------------------------------------
(* Specifications *)

\* the backend as a page finds it: empty, or holding a connected source
SeedServers ==
    { [sources |-> <<>>, nextId |-> 1, created |-> 0],
      [sources |-> <<Source("d1", ShapeOf(1))>>, nextId |-> 2, created |-> 0] }

InitWith(seeds) ==
    /\ mounted = {}
    /\ server \in seeds
    /\ net = EmptyBag
    /\ dsPage = DsPageInit
    /\ explorer = ExplorerInit
    /\ insights = InsightsInit
    /\ chat = ChatInit
    /\ store = StoreInit
    /\ toast = NoToast
    /\ returned = ""

Init == InitWith(SeedServers)

\* what the user chooses among in the connect form
TypeChoices == {"postgresql"}
FormInputs == { <<"name", "">>, <<"name", "Prod">> }
TableNames == {"users", "orders"}

Backend ==
    \/ \E r \in Requests : BackendList(r)
    \/ \E r \in Requests : BackendCreate(r)
    \/ \E r \in Requests : BackendDelete(r)
    \/ \E r \in Requests : BackendQuery(r)
    \/ \E r \in Requests : BackendGenerate(r)

DataSourcesNext ==
    \/ DsOpenDialog
    \/ DsDismissDialog
    \/ DsCancel
    \/ \E t \in TypeChoices : DsTypeSelect(t)
    \/ \E fv \in FormInputs : DsInputChange(fv[1], fv[2])
    \/ DsConnectClick
    \/ \E r \in Requests : DsCreateDone(r)
    \/ \E id \in Range(IdPool) : DsDeleteClick(id)
    \/ \E r \in Requests : DsDeleteDone(r)
    \/ \E r \in Requests : DsListDone(r)

ExplorerNext ==
    \/ \E r \in Requests : ExLoadDone(r)
    \/ \E id \in Range(IdPool) : ExSelectDataSource(id)
    \/ \E t \in TableNames : ExTableSelect(t)
    \/ \E text \in QueryInputs : ExSetQuery(text)
    \/ ExRunClick
    \/ \E r \in Requests : ExQueryDone(r)

TypeFilters == {"all", "anomaly"}

InsightsNext ==
    \/ \E r \in Requests : InListDone(r)
    \/ \E v \in {"all"} \cup Range(IdPool) : InSelectDataSource(v)
    \/ \E t \in TypeFilters : InSetSelectedType(t)
    \/ InGenerateClick
    \/ \E r \in Requests : InGenerateDone(r)

\* one browser tab: exactly one of the pages is opened
MountOne ==
    /\ mounted = {}
    /\ (DsMount \/ ExMount \/ InMount)

Next == MountOne \/ DataSourcesNext \/ ExplorerNext \/ InsightsNext \/ Backend

Spec == Init /\ [][Next]_vars

\* every awaited fetch settles and its continuation then runs: the POST of
\* a connect, the list reload a successful connect awaits, a query, a generate
Settling ==
    /\ WF_vars(\E r \in Requests : DsCreateDone(r))
    /\ WF_vars(\E r \in Requests : r.cont = "connect" /\ DsListDone(r))
    /\ WF_vars(\E r \in Requests : ExQueryDone(r))
    /\ WF_vars(\E r \in Requests : InGenerateDone(r))

\* the three guarded actions (connect, run query, generate) with what leads
\* up to them, and deletes alongside
LiveNext ==
    \/ MountOne
    \/ Backend
    \/ DsOpenDialog
    \/ \E t \in TypeChoices : DsTypeSelect(t)
    \/ DsInputChange("name", "Prod")
    \/ DsConnectClick
    \/ \E r \in Requests : DsCreateDone(r)
    \/ \E id \in Range(IdPool) : DsDeleteClick(id)
    \/ \E r \in Requests : DsDeleteDone(r)
    \/ \E r \in Requests : DsListDone(r)
    \/ \E r \in Requests : ExLoadDone(r)
    \/ \E id \in Range(IdPool) : ExSelectDataSource(id)
    \/ ExSetQuery(<<"SELECT 1">>)
    \/ ExRunClick
    \/ \E r \in Requests : ExQueryDone(r)
    \/ \E r \in Requests : InListDone(r)
    \/ InGenerateClick
    \/ \E r \in Requests : InGenerateDone(r)

SpecLive == Init /\ [][LiveNext]_vars /\ Settling

\* the Data Sources page in one tab when every request succeeds: the backend
\* answers with a success status and no fetch fails at the transport
AllAnsweredOk(bag) == \A q \in BagToSet(bag) : q.phase = "answered" => q.ok
Succeeded(r) == r.phase = "answered" /\ r.ok
OkBackend ==
    /\ \/ \E r \in Requests : BackendList(r)
       \/ \E r \in Requests : BackendCreate(r)
       \/ \E r \in Requests : BackendDelete(r)
    /\ AllAnsweredOk(net')
\* the continuations on their success paths
OkCreateDone(r) ==
    /\ Succeeded(r)
    /\ DsCreateDone(r)
    /\ InFlightIn(net', "list") > InFlightIn(net, "list")
OkDeleteDone(r) ==
    /\ Succeeded(r)
    /\ DsDeleteDone(r)
    /\ InFlightIn(net', "list") > InFlightIn(net, "list")
OkListDone(r) ==
    /\ Succeeded(r)
    /\ DsListDone(r)
    /\ dsPage'.dataSources = MapSources(r.list)

SucceedingNext ==
    \/ DsMount
    \/ DsOpenDialog
    \/ \E t \in TypeChoices : DsTypeSelect(t)
    \/ DsInputChange("name", "Prod")
    \/ DsConnectClick
    \/ \E id \in Range(IdPool) : DsDeleteClick(id)
    \/ OkBackend
    \/ \E r \in Requests : OkCreateDone(r)
    \/ \E r \in Requests : OkDeleteDone(r)
    \/ \E r \in Requests : OkListDone(r)

SpecSucceeding == Init /\ [][SucceedingNext]_vars

\* two browser tabs: the Data Sources page in one, the Explorer in the other,
\* against the same backend
TabsNext ==
    \/ DsMount
    \/ ExMount
    \/ \E id \in Range(IdPool) : DsDeleteClick(id)
    \/ \E r \in Requests : DsDeleteDone(r)
    \/ \E r \in Requests : DsListDone(r)
    \/ \E r \in Requests : ExLoadDone(r)
    \/ \E id \in Range(IdPool) : ExSelectDataSource(id)
    \/ \E t \in TableNames : ExTableSelect(t)
    \/ ExRunClick
    \/ \E r \in Requests : ExQueryDone(r)
    \/ \E r \in Requests : BackendList(r)
    \/ \E r \in Requests : BackendDelete(r)
    \/ \E r \in Requests : BackendQuery(r)

SpecTabs == Init /\ [][TabsNext]_vars

\* what the user may enter in the connect dialog
FieldInputs ==
    { <<"name", "">>, <<"name", "Prod">>, <<"host", "db.local">>,
      <<"port", "">>, <<"port", "5433">>, <<"port", "0">>,
      <<"database", "app">>, <<"url", "https://api.local">> }
FileChoices == {"sales.csv"}

\* the connect dialog on its own: every type and every field, with the
\* backend out of reach (each fetch rejects)
FormInit ==
    /\ Init
    /\ server.sources = <<>>

FormNext ==
    \/ DsMount
    \/ DsOpenDialog
    \/ DsDismissDialog
    \/ DsCancel
    \/ \E t \in TypeIds : DsTypeSelect(t)
    \/ \E fv \in FieldInputs : DsInputChange(fv[1], fv[2])
    \/ \E f \in FileChoices : DsChooseFile(f)
    \/ DsConnectClick
    \/ \E r \in Requests : DsCreateDone(r)
    \/ \E r \in Requests : DsListDone(r)

SpecForm == FormInit /\ [][FormNext]_vars

\* the Insights page on its own; the backend may also hold a source whose
\* connection failed
InsightsSeedServers ==
    SeedServers \cup
    { [sources |-> <<Source("d3", ShapeOf(3))>>, nextId |-> 4, created |-> 0],
      [sources |-> <<Source("d1", ShapeOf(1)), Source("d2", ShapeOf(2))>>,
       nextId |-> 3, created |-> 0] }

InsightsPageNext ==
    \/ InMount
    \/ InsightsNext
    \/ \E r \in Requests : BackendList(r)
    \/ \E r \in Requests : BackendGenerate(r)

SpecInsights == InitWith(InsightsSeedServers) /\ [][InsightsPageNext]_vars

\* the Explorer page alone, against a backend that may hold several sources
ExplorerPageNext ==
    \/ ExMount
    \/ ExplorerNext
    \/ \E r \in Requests : BackendList(r)
    \/ \E r \in Requests : BackendQuery(r)

SpecExplorer == InitWith(InsightsSeedServers) /\ [][ExplorerPageNext]_vars

\* the Chat page and the chat store
ChatNext ==
    \/ ChMount
    \/ \E id \in Range(mockDataSources) : ChSelectDataSource(id)
    \/ \E text \in ChatInputs : ChSetInput(text)
    \/ \E q \in suggestedQuestions : ChSuggestionClick(q)
    \/ ChSendClick
    \/ ChReplyTimer
    \/ \E m \in StoreMessages : StoreAddMessage(m)
    \/ \E ms \in StoreTranscripts : StoreSetMessages(ms)
    \/ \E b \in BOOLEAN : StoreSetLoading(b)
    \/ StoreClearMessages
    \/ \E id \in ConversationIds : StoreSetConversationId(id)

SpecChat == FormInit /\ [][ChatNext]_vars

\* the data source store, driven by arbitrary callers
StoreNext ==
    \/ \E ds \in StoreSources : StoreAddDataSource(ds)
    \/ \E id \in StoreIds : StoreRemoveDataSource(id)
    \/ \E id \in StoreIds \cup {""} : StoreSelectDataSource(id)
    \/ \E id \in StoreIds, u \in StoreUpdates : StoreUpdateDataSource(id, u)
    \/ \E b \in BOOLEAN : StoreSetConnecting(b)
    \/ \E e \in StoreErrors : StoreSetError(e)

SpecStore == FormInit /\ [][StoreNext]_vars

----------------------------------------------------------------------------
(* Properties *)

\* the requests of an endpoint that the step sends
Issued(kind) ==
    {q \in BagToSet(net') : /\ q.kind = kind
                            /\ q.phase = "sent"
                            /\ CopiesIn(q, net') > CopiesIn(q, net)}

\* the step is the continuation of the handler that awaited r
HandlerTook(r) ==
    /\ CopiesIn(r, net') < CopiesIn(r, net)
    /\ InFlightIn(net', r.kind) < InFlightIn(net, r.kind)

\* r cannot have ended in success: never answered, or answered with a
\* non-success status
CertainFailure(r) == r.phase = "sent" \/ ~r.ok

\* C1: a Run in the Explorer while the query text is empty or whitespace, or
\* while no data source is selected, sends no query request; the handler
\* returns at its guard with results, columns, executionTime, isExecuting
\* (the whole page state), the requests in flight and the notifications
\* untouched.
C1_RunRejectedLocally ==
    [][ (Trim(explorer.query) = <<>> \/ explorer.selectedDataSource = "")
        => /\ Issued("query") = {}
           /\ returned' = "handleExecuteQuery"
                => explorer' = explorer /\ net' = net /\ toast' = NoToast ]_vars

\* C1 witness: the Run button was pressed with query text but no selection,
\* and the handler returned at its guard
C1_RunRejected ==
    /\ returned = "handleExecuteQuery"
    /\ explorer.selectedDataSource = ""
    /\ Trim(explorer.query) # <<>>

\* the step in which handleExecuteQuery handles a failure of request r
QueryFailedStep(r) ==
    /\ r.kind = "query"
    /\ HandlerTook(r)
    /\ (toast'.level = "error" \/ CertainFailure(r) \/ ~r.qbody.parsable)

\* C2: when a query call fails (non-success response, unparsable body or
\* transport failure), results, columns and executionTime equal what they
\* were when the query was dispatched; the step changes only isExecuting and
\* raises an error notification.
C2_FailedQueryKeepsResults ==
    [][ \A r \in Requests :
          QueryFailedStep(r)
          => /\ ResultState(explorer') = r.before
             /\ explorer' = [explorer EXCEPT !.isExecuting = FALSE]
             /\ toast'.level = "error" ]_vars

\* C2 witness: a query has just failed while an earlier result is rendered
C2_FailedAfterResults ==
    /\ "explorer" \in mounted
    /\ toast.level = "error"
    /\ toast.msg # "Failed to load data sources"
    /\ ~explorer.results.isNull
    /\ ~explorer.isExecuting

\* C3: once handleDelete has reported the deletion of source d, the Explorer
\* no longer has d selected.  (Fails: nothing in handleDelete or in the
\* Explorer clears or reloads the Explorer's state.)
C3_DeletedSourceDeselected ==
    ( /\ "explorer" \in mounted
      /\ toast.level = "success"
      /\ toast.msg = "has been deleted" )
    => explorer.selectedDataSource # toast.subject

\* fetches a running handleConnect awaits: the POST, then its reload
ConnectOutstanding ==
    BagCardinality([r \in {q \in Requests :
                             \/ q.kind = "create"
                             \/ (q.kind = "list" /\ q.cont = "connect")}
                    |-> net[r]])

\* C4: connect, query and generate each have at most one request outstanding;
\* while one is outstanding (until the handler finishes) the action's flag is
\* true and the control that triggers the action is disabled.
C4_OneOutstandingPerAction ==
    /\ ConnectOutstanding <= 1
    /\ InFlight("query") <= 1
    /\ InFlight("generate") <= 1
    /\ ConnectOutstanding = 1 => dsPage.isConnecting /\ ConnectDisabled
    /\ InFlight("query") = 1 => explorer.isExecuting /\ RunQueryDisabled
    /\ InFlight("generate") = 1 => insights.isGenerating /\ GenerateDisabled

\* C4 witness: a query is outstanding, the text is still there and a second
\* fetch could be sent, so only the flag keeps the Run button disabled
C4_QueryOutstanding ==
    /\ InFlight("query") = 1
    /\ explorer.isExecuting
    /\ Trim(explorer.query) # <<>>
    /\ HasFreeSlot

DeletesInFlight(id) ==
    BagCardinality([r \in {q \in Requests : q.kind = "delete" /\ q.target = id}
                    |-> net[r]])

\* C5: at most one DELETE per data source is outstanding.  (Fails:
\* handleDelete keeps no flag and the Delete item is never disabled.)
C5_OneDeletePerSource ==
    \A id \in Range(IdPool) : DeletesInFlight(id) <= 1

\* C6: the list of the Data Sources page changes only in the step that
\* receives a successful GET /datasources, and then to the mapped body of that
\* response; the step that receives a successful POST or DELETE sends the
\* re-fetch and leaves the list as it is.
C6_ListOnlyReplacedByFetch ==
    [][ /\ dsPage'.dataSources # dsPage.dataSources
           => \E r \in Requests :
                 /\ r.kind = "list" /\ r.page = "datasources"
                 /\ r.phase = "answered" /\ r.ok
                 /\ HandlerTook(r)
                 /\ dsPage'.dataSources = MapSources(r.list)
        /\ \A r \in Requests :
              ( /\ r.kind \in {"create", "delete"}
                /\ HandlerTook(r)
                /\ toast'.level # "error" )
              => /\ \E q \in Issued("list") :
                       /\ q.page = "datasources"
                       /\ q.cont = (IF r.kind = "create" THEN "connect"
                                                          ELSE "delete")
                 /\ dsPage'.dataSources = dsPage.dataSources ]_vars

\* C6 witness: a create has succeeded and its re-fetch has put the new
\* source into the list
C6_ReloadedAfterCreate ==
    /\ toast = SuccessToast("Data source connected successfully!")
    /\ server.created > 0
    /\ IdOf(server.nextId - 1) \in DsSourceIds

\* the step in which handleConnect / handleDelete handles a failure of r
MutationFailedStep(r) ==
    /\ r.kind \in {"create", "delete"}
    /\ HandlerTook(r)
    /\ (toast'.level = "error" \/ CertainFailure(r))

\* C7: the step that handles a failed create or delete sends no re-fetch and
\* leaves the list, the dialog, the form data and the selected type as they
\* were; only isConnecting is cleared, and an error is notified.
C7_FailedMutationKeepsState ==
    [][ \A r \in Requests :
          MutationFailedStep(r)
          => /\ Issued("list") = {}
             /\ dsPage' = [dsPage EXCEPT
                             !.isConnecting = IF r.kind = "create" THEN FALSE
                                                                   ELSE @]
             /\ toast'.level = "error" ]_vars

\* C7 witness: a create has just been refused by the backend and the dialog
\* is still open with the name typed in
C7_CreateFailedDialogOpen ==
    /\ "datasources" \in mounted
    /\ toast = ErrorToast("connection refused")
    /\ dsPage.isDialogOpen
    /\ dsPage.selectedType # ""
    /\ dsPage.formData.name # ""
    /\ ~dsPage.isConnecting

\* C8: whenever a handler sees its fetch fail (no response, or a non-success
\* response), the step raises an error notification.  (Fails: loadDataSources
\* on the Data Sources and Insights pages only logs to the console, and all
\* three loaders ignore a non-success response.)
C8_EveryFailureNotified ==
    [][ \A r \in Requests :
          (HandlerTook(r) /\ CertainFailure(r)) => toast'.level = "error" ]_vars

\* C9: with no type selected the connect form cannot be submitted: no step
\* from such a state sends POST /datasources, and handleConnect is not even
\* entered.
C9_NoPostWithoutType ==
    [][ dsPage.selectedType = ""
        => Issued("create") = {} /\ returned' # "handleConnect" ]_vars

\* C9 witness: the dialog is open, nothing is selected, nothing is pending
C9_DialogWithoutType ==
    /\ dsPage.isDialogOpen
    /\ dsPage.selectedType = ""
    /\ ~dsPage.isConnecting
    /\ HasFreeSlot

\* C10: with an empty name no step sends POST /datasources; handleConnect
\* returns at its check with the validation error raised and isConnecting,
\* the dialog, the form data and the list (the whole page state) untouched.
C10_EmptyNameRejected ==
    [][ dsPage.formData.name = ""
        => /\ Issued("create") = {}
           /\ returned' = "handleConnect"
                => /\ toast' = ErrorToast("Please enter a connection name")
                   /\ dsPage' = dsPage
                   /\ net' = net ]_vars

\* C10 witness: Connect was pressed with a type selected and no name
C10_ValidationRaised ==
    /\ returned = "handleConnect"
    /\ toast = ErrorToast("Please enter a connection name")
    /\ dsPage.isDialogOpen
    /\ dsPage.selectedType # ""
    /\ dsPage.formData.name = ""
    /\ ~dsPage.isConnecting

\* the form fields other than the port
OtherFields ==
    {"name", "host", "database", "username", "password", "url", "apiKey"}

\* C11: a step that selects type T in the connect form sets the port field
\* to T's default port (5432 postgresql, 3306 mysql, 27017 mongodb, 5439
\* redshift, empty for the others) and leaves the name and every other form
\* field as it was.
C11_TypeSelectSetsPortOnly ==
    [][ (dsPage'.selectedType # dsPage.selectedType /\ dsPage'.selectedType # "")
        => /\ dsPage'.formData.port =
                 (CASE dsPage'.selectedType = "postgresql" -> "5432"
                    [] dsPage'.selectedType = "mysql"      -> "3306"
                    [] dsPage'.selectedType = "mongodb"    -> "27017"
                    [] dsPage'.selectedType = "redshift"   -> "5439"
                    [] OTHER                               -> "")
           /\ \A f \in OtherFields :
                 dsPage'.formData[f] = dsPage.formData[f] ]_vars

\* C11 witness: mysql is selected with its default port while the name, and
\* a url that can only have been typed under rest_api, are still in the form
C11_TypeChangedFormKept ==
    /\ dsPage.isDialogOpen
    /\ dsPage.selectedType = "mysql"
    /\ dsPage.formData.port = "3306"
    /\ dsPage.formData.name = "Prod"
    /\ dsPage.formData.url = "https://api.local"

\* C12: every POST /datasources carries the config its type requires: url and
\* api_key for rest_api, the path of the chosen file for csv, and host, port,
\* database, username and password for every other type.  (Fails: the port
\* key is dropped when the port text is empty or 0, which is the default for
\* sqlite, snowflake and bigquery; and for csv file_path is the connection
\* name, the chosen file is never read.)
C12_ConfigHasRequiredShape ==
    [][ \A q \in Issued("create") :
          LET t   == q.payload.type
              cfg == q.payload.config
          IN  IF t = "rest_api"
              THEN /\ DOMAIN cfg = {"url", "api_key"}
                   /\ cfg.url = dsPage.formData.url
              ELSE IF t = "csv"
              THEN /\ DOMAIN cfg = {"file_path"}
                   /\ cfg.file_path = dsPage.file
              ELSE DOMAIN cfg =
                     {"host", "port", "database", "username", "password"} ]_vars

\* C13: whenever the Data Sources page takes over a GET /datasources
\* response, every entry of its list shows the status field of the
\* corresponding entry of the response, also when that field was omitted.
\* (Fails: an omitted or empty status is shown as "connected".)
C13_StatusAsReturned ==
    [][ \A r \in Requests :
          ( /\ r.kind = "list" /\ r.page = "datasources"
            /\ r.phase = "answered" /\ r.ok
            /\ HandlerTook(r)
            /\ dsPage'.dataSources # dsPage.dataSources )
          => /\ Len(dsPage'.dataSources) = Len(r.list)
             /\ \A k \in 1..Len(r.list) :
                   dsPage'.dataSources[k].status = r.list[k].status ]_vars

IsPrefix(s, t) == Len(s) <= Len(t) /\ SubSeq(t, 1, Len(s)) = s

TranscriptsOnlyGrow ==
    /\ IsPrefix(chat.messages, chat'.messages)
    /\ IsPrefix(store.chat.messages, store'.chat.messages)

\* C14: the transcripts are append-only: in every step other than the
\* store's clearMessages and setMessages, the Chat page's transcript and the
\* store's transcript before the step are prefixes of those after it; in
\* particular handleSend never clears.
C14_TranscriptAppendOnly ==
    [][ (~StoreClearMessages /\ ~(\E ms \in StoreTranscripts : StoreSetMessages(ms)))
        => TranscriptsOnlyGrow ]_vars

\* C14 witness: a second question was sent after the first reply, and the
\* store holds two messages
C14_SecondSend ==
    /\ Len(chat.messages) = 3
    /\ chat.messages[3].role = "user"
    /\ chat.isLoading
    /\ Len(store.chat.messages) = 2

\* C14 as stated: every step other than an explicit clear keeps the
\* transcript before it as a prefix.  (Fails on the store's setMessages,
\* which replaces the transcript wholesale.)
C14_OnlyClearShrinks ==
    [][ ~StoreClearMessages => TranscriptsOnlyGrow ]_vars

\* the client's list on the Insights page holds a connected source
HasConnectedSource ==
    \E k \in 1..Len(insights.dataSources) :
       insights.dataSources[k].status = "connected"

\* C15: from a state in which the Insights page's list holds no connected
\* data source, no step sends POST /insights/generate and isGenerating stays
\* false.  (Fails: the handler only tests dataSources.length === 0, so a
\* list holding only a failed source lets the request through.)
C15_GenerateNeedsConnectedSource ==
    [][ ~HasConnectedSource
        => Issued("generate") = {} /\ ~insights'.isGenerating ]_vars

\* C16: with an empty data source list the Insights page shows the connect
\* call-to-action and offers no Generate Insights control.  (Fails: the
\* header's Generate Insights button is rendered unconditionally and is only
\* disabled while generating.)
C16_NoGenerateControlWithoutSources ==
    ("insights" \in mounted /\ Len(insights.dataSources) = 0)
    => /\ ConnectLinkShown
       /\ ~HeaderGenerateShown
       /\ ~CardGenerateShown

\* C17: when handleGenerateInsights sees its request fail, or succeed with an
\* empty list, the step raises an error notification (never a success one).
\* (Fails: an empty list is stored and announced with toast.success, and the
\* page goes on showing the "No AI Insights Yet" card.)
C17_EmptyResultIsAnError ==
    [][ \A r \in Requests :
          ( /\ r.kind = "generate"
            /\ HandlerTook(r)
            /\ (CertainFailure(r) \/ ~r.ibody.parsable \/ r.ibody.items = <<>>) )
          => toast'.level = "error" ]_vars

\* every request the step sends
AllIssued ==
    {q \in BagToSet(net') : q.phase = "sent" /\ CopiesIn(q, net') > CopiesIn(q, net)}

\* the step is a page mount sending its initial list load
IssuedByMount ==
    /\ mounted' # mounted
    /\ \E q \in AllIssued :
          /\ q.kind = "list" /\ q.cont = "mount"
          /\ net' = net (+) One(q)

\* the step is a user action sending its one request
IssuedByUserAction ==
    /\ mounted' = mounted
    /\ \E q \in AllIssued :
          /\ q.kind \in {"create", "delete", "query", "generate"}
          /\ net' = net (+) One(q)

\* the step takes a successful create / delete response and sends the re-fetch
IssuedByRefetch ==
    \E r \in Requests :
       /\ r.kind \in {"create", "delete"} /\ r.phase = "answered" /\ r.ok
       /\ \E q \in AllIssued :
             /\ q.kind = "list" /\ q.page = "datasources"
             /\ net' = (net (-) One(r)) (+) One(q)

\* C18: every step that sends a request is a page mount (initial list load),
\* a user action (connect, delete, run query, generate) or the re-fetch that
\* follows a successful create or delete, and sends exactly one request; the
\* step in which a handler sees its request fail sends nothing.
C18_NoSpontaneousRequest ==
    [][ /\ AllIssued # {}
           => IssuedByMount \/ IssuedByUserAction \/ IssuedByRefetch
        /\ \A r \in Requests :
              (HandlerTook(r) /\ CertainFailure(r)) => AllIssued = {} ]_vars

\* C18 witness: a request has just failed at the transport and nothing is
\* in flight afterwards
C18_FailedAndQuiet ==
    /\ toast = ErrorToast("Failed to fetch")
    /\ net = EmptyBag
    /\ mounted # {}

\* C19: in every result table the Explorer shows, every row renders as many
\* cells as the header has columns, whatever the response carried.
C19_RowCellsMatchHeader ==
    ("explorer" \in mounted /\ TableShown(explorer))
       => \A i \in 1..Len(explorer.results.rows) :
             RowCells(explorer, i) = HeaderCells(explorer)

\* the step in which handleExecuteQuery takes a non-success response whose
\* body parses
QueryRefusedStep(r) ==
    /\ r.kind = "query" /\ r.phase = "answered" /\ ~r.ok /\ r.ebody.parsable
    /\ HandlerTook(r)
    /\ toast'.msg # "Failed to fetch"

\* C20: the message shown for a refused query is detail when detail is a
\* string, detail.message when detail is an object carrying one, and is
\* never empty.
C20_QueryErrorMessageExtracted ==
    [][ \A r \in Requests :
           QueryRefusedStep(r)
              => /\ toast'.level = "error"
                 /\ toast'.msg # ""
                 /\ r.ebody.detailKind = "string" => toast'.msg = r.ebody.detail
                 /\ (r.ebody.detailKind = "object" /\ r.ebody.detailMessage # "")
                       => toast'.msg = r.ebody.detailMessage ]_vars

\* the cells of the table on display, as (value, rendering) pairs
DisplayedCells ==
    IF "explorer" \in mounted /\ TableShown(explorer)
    THEN UNION { { [value |-> explorer.results.rows[i][j],
                    shown |-> RenderedRows(explorer)[i][j]] :
                      j \in 1..Len(explorer.results.rows[i]) } :
                 i \in 1..Len(explorer.results.rows) }
    ELSE {}

\* C21: a null cell is shown as the NULL marker and no other value is;
\* a number is shown with its digits grouped in threes, and every other
\* value as its string form.
C21_NullDistinguishable ==
    \A c \in DisplayedCells :
       /\ (c.value.type = "null") <=> (c.shown = NullMarker)
       /\ c.value.type = "number"
             => c.shown = Plain(toLocaleString(c.value.num))
       /\ c.value.type \in {"string", "boolean"}
             => c.shown = Plain(StringOf(c.value))

\* C21 witness: the table shows a null cell next to a cell holding the
\* text "NULL"
C21_NullBesideNullText ==
    /\ \E c \in DisplayedCells : c.value = JNull
    /\ \E c \in DisplayedCells : c.value = JStr(<<"N", "U", "L", "L">>)

\* the table shows the number 1234 as 1,234
C21_GroupedNumberShown ==
    \E c \in DisplayedCells :
       c.value = JNum(1234) /\ c.shown.text = <<"1", ",", "2", "3", "4">>

\* m2 is m1 keyed by name instead of label
NameAliasOf(m1, m2) ==
    /\ m1.label # "" /\ m1.name = ""
    /\ m2.label = "" /\ m2.name = m1.label
\* c2 is the number c1 written as a string, with or without a leading "+"
StringFormOf(c1, c2) ==
    /\ c1.kind = "number" /\ c2.kind = "string"
    /\ \/ c2.str = NumText(c1.num)
       \/ c1.num > 0 /\ c2.str = <<"+">> \o NumText(c1.num)

\* C22: two displayed metrics that differ only in being keyed by label or
\* by name, and in giving the same change as a number or as its string form,
\* are rendered with the same label, value, change text and badge.
C22_MetricAliasesRenderAlike ==
    \A m1, m2 \in DisplayedMetrics :
       ( /\ NameAliasOf(m1, m2)
         /\ m1.value = m2.value /\ m1.unit = m2.unit
         /\ StringFormOf(m1.change, m2.change) )
          => RenderMetric(m1) = RenderMetric(m2)

\* the aliases the spec itself names (3 and "+3") do render alike
C22_SignedAliasRendersAlike ==
    \A m1, m2 \in DisplayedMetrics :
       ( /\ NameAliasOf(m1, m2)
         /\ m1.value = m2.value /\ m1.unit = m2.unit
         /\ StringFormOf(m1.change, m2.change)
         /\ m1.change.num > 0 => Head(m2.change.str) = "+" )
          => RenderMetric(m1) = RenderMetric(m2)

\* the step is a click on table t of the schema browser: the selected table
\* becomes t, or t stays selected and the query box is refilled
TableClickStep(t) ==
    /\ explorer'.selectedTable = t
    /\ \/ explorer.selectedTable # t
       \/ /\ explorer'.query # explorer.query
          /\ explorer'.query \notin QueryInputs

\* what a table click leaves alone: selected data source, results, columns,
\* execution time, every other cell of the page, the network
TableClickFrame(t) ==
    /\ explorer'.selectedDataSource = explorer.selectedDataSource
    /\ explorer'.results = explorer.results
    /\ explorer'.columns = explorer.columns
    /\ explorer'.executionTime = explorer.executionTime
    /\ explorer'.isExecuting = explorer.isExecuting
    /\ explorer'.dataSources = explorer.dataSources
    /\ net' = net
    /\ toast' = NoToast

\* C23 (as stated): a click on table t selects t and fills the query box with
\* exactly SELECT * FROM t LIMIT 100, leaving data source, results, columns
\* and execution time alone and sending nothing.
C23_TableClickFillsUnterminatedQuery ==
    [][ \A t \in TableNames :
           TableClickStep(t)
              => /\ explorer'.query = <<"SELECT * FROM ", t, " LIMIT 100">>
                 /\ TableClickFrame(t) ]_vars

\* C23 (amended): a click on table t selects t and fills the query box with
\* SELECT * FROM t LIMIT 100; (terminated by a semicolon), whatever it held,
\* leaving data source, results, columns and execution time alone and
\* sending nothing.
C23_TableClickFillsQuery ==
    [][ \A t \in TableNames :
           TableClickStep(t)
              => /\ explorer'.query = <<"SELECT * FROM ", t, " LIMIT 100;">>
                 /\ TableClickFrame(t) ]_vars

\* C23 witness: a table was clicked while a result was on display
C23_TableClickedOverResults ==
    /\ "explorer" \in mounted
    /\ explorer.selectedTable \in TableNames
    /\ explorer.query = <<"SELECT * FROM ", explorer.selectedTable, " LIMIT 100;">>
    /\ TableShown(explorer)
    /\ Len(explorer.results.rows) > 0

\* the step is a removeDataSource(id) call that takes an entry out
RemovedStep(id) ==
    /\ store'.ds.dataSources = WithoutId(store.ds.dataSources, id)
    /\ store'.ds.dataSources # store.ds.dataSources

\* the selection is null or equal, field by field, to an entry of dataSources
C24_SelectionIsAnEntry ==
    store.ds.selectedDataSource.isNull
       \/ \E k \in 1..Len(store.ds.dataSources) :
             store.ds.dataSources[k] = store.ds.selectedDataSource.value

\* removeDataSource(id) clears the selection exactly when the selected
\* source has that id, and otherwise leaves it unchanged
C24_RemoveClearsOwnSelection ==
    [][ \A id \in StoreIds :
           RemovedStep(id)
              => store'.ds.selectedDataSource =
                    IF SelectedHasId(store.ds, id)
                    THEN NullSource ELSE store.ds.selectedDataSource ]_vars

\* C24 witness: a selected source has been updated and is still an entry
C24_SelectedUpdated ==
    /\ ~store.ds.selectedDataSource.isNull
    /\ store.ds.selectedDataSource.value.name = "Renamed"
    /\ store.ds.selectedDataSource.value.status = "error"
    /\ Len(store.ds.dataSources) = 2

\* C24: after every store call the selection is null or equal, field by
\* field, to an entry of dataSources, and a removeDataSource(id) call clears
\* the selection exactly when the selected source has that id and otherwise
\* leaves it unchanged.
C24_StoreSelectionConsistent ==
    [][ /\ C24_SelectionIsAnEntry'
        /\ \A id \in StoreIds :
              RemovedStep(id)
                 => store'.ds.selectedDataSource =
                       IF SelectedHasId(store.ds, id)
                       THEN NullSource ELSE store.ds.selectedDataSource ]_vars

\* C25: a set isConnecting, isExecuting or isGenerating flag is eventually
\* cleared, whichever way the request it guards ends.
C25_FlagsReleased ==
    /\ dsPage.isConnecting ~> ~dsPage.isConnecting
    /\ explorer.isExecuting ~> ~explorer.isExecuting
    /\ insights.isGenerating ~> ~insights.isGenerating

\* C25 witness: a query answered with an unparsable body has been handled
\* and the Run button is released
C25_ReleasedAfterUnparsableBody ==
    /\ mounted = {"explorer"}
    /\ toast = ErrorToast("Unexpected token in JSON")
    /\ ~explorer.isExecuting
    /\ InFlightIn(net, "query") = 0

\* C26: on the Data Sources page, when every request has succeeded and none
\* is outstanding, the listed sources are the backend's sources.
C26_QuiescentListMatchesBackend ==
    ("datasources" \in mounted /\ net = EmptyBag)
       => DsSourceIds = ServerIds

\* C27: in the Explorer the selected table is empty or is a table of the
\* currently selected data source.
C27_SelectedTableOfCurrentSource ==
    "explorer" \in mounted
       => (explorer.selectedTable = "" \/ explorer.selectedTable \in CurrentTables)

\* C28: whenever the connect dialog is closed the form is in its default
\* state: no selected type and every field at its default.
C28_ClosedDialogHasDefaultForm ==
    ("datasources" \in mounted /\ ~dsPage.isDialogOpen)
       => (dsPage.selectedType = "" /\ dsPage.formData = DefaultForm)

\* the GET /datasources sent when the Insights page mounted has not resolved
InsightsLoadOutstanding ==
    \E q \in BagToSet(net) : q.kind = "list" /\ q.page = "insights"

\* C29: on the Insights page isLoading is false only once the initial data
\* source fetch has resolved, so neither the 'connect a data source first'
\* empty state nor the 'Please connect a data source first' rejection appears
\* while that fetch is outstanding.
C29_LoadingCoversInitialFetch ==
    "insights" \in mounted
       => /\ ~insights.isLoading => ~InsightsLoadOutstanding
          /\ ConnectLinkShown => ~InsightsLoadOutstanding
          /\ toast = ErrorToast("Please connect a data source first")
                => ~InsightsLoadOutstanding

\* the transcript alternates user, assistant, starting with user
Alternating(msgs) ==
    \A i \in 1..Len(msgs) :
       msgs[i].role = IF i % 2 = 1 THEN "user" ELSE "assistant"
\* the last message is a user message still awaiting its reply
AwaitingReply(c) ==
    Len(c.messages) > 0 /\ c.messages[Len(c.messages)].role = "user"

\* C30: on the Chat page the transcript always alternates user, assistant
\* starting with user; isLoading is true exactly while the last message is a
\* user message awaiting its reply; and no step taken while isLoading is true
\* adds a user message: the only message added then is the one assistant reply.
C30_SendThenOneReply ==
    [][ /\ Alternating(chat'.messages)
        /\ chat'.isLoading <=> AwaitingReply(chat')
        /\ chat.isLoading
              => \/ chat'.messages = chat.messages
                 \/ /\ Len(chat'.messages) = Len(chat.messages) + 1
                    /\ chat'.messages[Len(chat'.messages)].role = "assistant"
                    /\ ~chat'.isLoading
        /\ (~chat.isLoading /\ chat'.messages # chat.messages)
              => /\ chat'.messages
                      = Append(chat.messages, Message("user", chat.input))
                 /\ chat'.isLoading ]_vars

\* C30 witness: two full exchanges are in the transcript and the page is idle
C30_TwoExchangesDone ==
    /\ "chat" \in mounted
    /\ Len(chat.messages) = 4
    /\ chat.messages[4].role = "assistant"
    /\ ~chat.isLoading
    /\ chat.timers = <<>>

====
